---------------------------- MODULE Spec2Model ----------------------------
(***************************************************************************)
(* Model of the two one-shot text patch scripts of the repository:         *)
(*                                                                         *)
(*   style_patch.py     reads style.css, merges ".edit-task-modal" into    *)
(*                      the rules of ".new-task-modal" line by line and    *)
(*                      writes the file back;                              *)
(*   patch_markdown.py  reads task_detail.rs, inserts an import, injects   *)
(*                      statements before "view! {" and replaces a markup  *)
(*                      fragment, then writes the file back.               *)
(*                                                                         *)
(* A text is a sequence of atoms.  An atom is one character or one of the  *)
(* string literals of the scripts (or a piece of one, where a literal is   *)
(* another literal with text added).  No literal occurs in a text spelt by *)
(* atoms other than as the atoms that spell it: the selectors hold a       *)
(* single "." each, at their start; "use ", "let (" and "<p " occur        *)
(* nowhere but at the start of the literals that are searched for.         *)
(* Searching and replacing on atoms is therefore str.replace and re.sub on *)
(* the characters that the atoms spell.                                    *)
(***************************************************************************)
EXTENDS Integers, Sequences, FiniteSets, TLC

\* Longest stylesheet text, in atoms, that Init draws.
MaxCssLen == 5
\* Longest template text, in atoms, that Init draws.
MaxTplLen == 4
\* Longest text of either file drawn when both scripts run (Spec).
MaxBothLen == 3
\* Number of times each script is run.
MaxRuns == 2

VARIABLES
    cssFile,     \* contents of app/leptos-ui/style.css
    lines,       \* style_patch.py: lines, as left by the last run
    new_lines,   \* style_patch.py: new_lines, as left by the last run
    cssRuns,     \* completed runs of style_patch.py
    tplFile,     \* contents of app/leptos-ui/src/components/task_detail.rs
    content,     \* patch_markdown.py: the values content took in the last run
    tplRuns      \* completed runs of patch_markdown.py

vars == <<cssFile, lines, new_lines, cssRuns, tplFile, content, tplRuns>>

---------------------------------------------------------------------------
(* str primitives                                                          *)

\* s[k..] starts with p
MatchAt(s, p, k) ==
    /\ k + Len(p) - 1 <= Len(s)
    /\ \A j \in 1..Len(p) : s[k + j - 1] = p[j]

\* p in s
Contains(s, p) == \E k \in 1..(Len(s) - Len(p) + 1) : MatchAt(s, p, k)

\* s.startswith(p)
StartsWith(s, p) == MatchAt(s, p, 1)

\* s.count(p): non-overlapping occurrences, scanning from the left
RECURSIVE CountFrom(_, _, _)
CountFrom(s, p, k) ==
    IF k + Len(p) - 1 > Len(s) THEN 0
    ELSE IF MatchAt(s, p, k) THEN 1 + CountFrom(s, p, k + Len(p))
    ELSE CountFrom(s, p, k + 1)

Count(s, p) == CountFrom(s, p, 1)

\* s.replace(old, new): every non-overlapping occurrence, from the left
RECURSIVE ReplaceFrom(_, _, _, _)
ReplaceFrom(s, old, new, k) ==
    IF k > Len(s) THEN << >>
    ELSE IF MatchAt(s, old, k) THEN new \o ReplaceFrom(s, old, new, k + Len(old))
    ELSE <<s[k]>> \o ReplaceFrom(s, old, new, k + 1)

Replace(s, old, new) == ReplaceFrom(s, old, new, 1)

NL == "\n"

\* s.split('\n')
RECURSIVE Split(_)
Split(s) ==
    IF \A k \in 1..Len(s) : s[k] # NL THEN <<s>>
    ELSE LET k == CHOOSE m \in 1..Len(s) :
                      s[m] = NL /\ \A j \in 1..(m - 1) : s[j] # NL
         IN  <<SubSeq(s, 1, k - 1)>> \o Split(SubSeq(s, k + 1, Len(s)))

\* '\n'.join(ls)
RECURSIVE Join(_)
Join(ls) ==
    IF Len(ls) = 0 THEN << >>
    ELSE IF Len(ls) = 1 THEN ls[1]
    ELSE ls[1] \o <<NL>> \o Join(Tail(ls))

\* s.strip(): leading and trailing whitespace removed
RECURSIVE Strip(_)
Strip(s) ==
    IF Len(s) = 0 THEN s
    ELSE IF s[1] = " " THEN Strip(Tail(s))
    ELSE IF s[Len(s)] = " " THEN Strip(SubSeq(s, 1, Len(s) - 1))
    ELSE s

---------------------------------------------------------------------------
(* style_patch.py                                                          *)

SourceSelector == <<".new-task-modal">>
TargetSelector == <<".edit-task-modal">>
\* '.new-task-modal, .edit-task-modal'
MergedSelector == SourceSelector \o <<",", " ">> \o TargetSelector

CssAlphabet == {".new-task-modal", ".edit-task-modal", "{", ",", " ", "x", NL}

CssTexts(n) == UNION {[1..m -> CssAlphabet] : m \in 0..n}

\* The loop body with the bare selector test tried first.
ProcessLineNoElif(line) ==
    IF /\ StartsWith(Strip(line), SourceSelector)
       /\ ~Contains(line, <<"{">>)
       /\ ~Contains(line, TargetSelector)
    THEN <<line, Replace(line, SourceSelector, TargetSelector)>>
    ELSE IF /\ Contains(line, SourceSelector)
            /\ ~Contains(line, TargetSelector)
            /\ (Contains(line, <<"{">>) \/ Contains(line, <<",">>))
    THEN <<Replace(line, SourceSelector, MergedSelector)>>
    ELSE <<line>>

\* The loop body without the '.edit-task-modal' not in line tests.
ProcessLineNoGuard(line) ==
    IF Contains(line, SourceSelector) /\ Contains(line, <<"{">>)
    THEN <<Replace(line, SourceSelector, MergedSelector)>>
    ELSE IF /\ Contains(line, SourceSelector)
            /\ Contains(line, <<",">>)
            /\ ~Contains(line, <<"{">>)
    THEN <<Replace(line, SourceSelector, MergedSelector)>>
    ELSE IF /\ StartsWith(Strip(line), SourceSelector)
            /\ ~Contains(line, <<"{">>)
    THEN <<line, Replace(line, SourceSelector, TargetSelector)>>
    ELSE <<line>>

\* The loop body without new_lines.append(line) in the bare selector branch.
ProcessLineNoAppend(line) ==
    IF /\ Contains(line, SourceSelector)
       /\ ~Contains(line, TargetSelector)
       /\ (Contains(line, <<"{">>) \/ Contains(line, <<",">>))
    THEN <<Replace(line, SourceSelector, MergedSelector)>>
    ELSE IF /\ StartsWith(Strip(line), SourceSelector)
            /\ ~Contains(line, <<"{">>)
            /\ ~Contains(line, TargetSelector)
    THEN <<Replace(line, SourceSelector, TargetSelector)>>
    ELSE <<line>>

\* One pass of the body of the while loop: the lines it appends to new_lines.
ProcessLine(line) ==
    IF /\ Contains(line, SourceSelector)
       /\ Contains(line, <<"{">>)
       /\ ~Contains(line, TargetSelector)
    THEN <<Replace(line, SourceSelector, MergedSelector)>>
    ELSE IF /\ Contains(line, SourceSelector)
            /\ Contains(line, <<",">>)
            /\ ~Contains(line, <<"{">>)
            /\ ~Contains(line, TargetSelector)
    THEN <<Replace(line, SourceSelector, MergedSelector)>>
    ELSE IF /\ StartsWith(Strip(line), SourceSelector)
            /\ ~Contains(line, <<"{">>)
            /\ ~Contains(line, TargetSelector)
    THEN <<line, Replace(line, SourceSelector, TargetSelector)>>
    ELSE <<line>>

\* while i < len(lines): ... i += 1   (i counts from 1 here)
RECURSIVE Loop(_, _, _)
Loop(ls, i, out) ==
    IF i > Len(ls) THEN out
    ELSE Loop(ls, i + 1, out \o ProcessLine(ls[i]))

\* The whole script: read, split, loop, join, write.
StylePatch ==
    /\ cssRuns < MaxRuns
    /\ lines' = Split(cssFile)
    /\ new_lines' = Loop(lines', 1, << >>)
    /\ cssFile' = Join(new_lines')
    /\ cssRuns' = cssRuns + 1
    /\ UNCHANGED <<tplFile, content, tplRuns>>

---------------------------------------------------------------------------
(* patch_markdown.py                                                       *)

\* 'use leptos::task::spawn_local;'
ImportAnchor == <<"use leptos::task::spawn_local;">>
\* 'use pulldown_cmark'
ImportMarker == <<"use pulldown_cmark">>
\* 'use pulldown_cmark::{Parser, html};'
ImportLine == ImportMarker \o <<"::{Parser, html};">>
\* 'use leptos::task::spawn_local;\nuse pulldown_cmark::{Parser, html};'
AnchorAndImport == ImportAnchor \o <<NL>> \o ImportLine

\* 'let (all_pass, checks, _suggestions) = qa_report.get();'
Binding == <<"let (all_pass, checks, _suggestions) = qa_report.get();">>
\* the line break, the indentation of twenty spaces and 'view! {'
ViewOpen == <<"\n                    view! {">>
\* the three statements, each with its line break and indentation
InjectedStatements ==
    <<"\n                    let mut html_output = String::new();",
      "\n                    let parser = Parser::new(&desc);",
      "\n                    html::push_html(&mut html_output, parser);">>

\* The regular expression escapes every metacharacter: it matches this text
\* and no other.
target == Binding \o ViewOpen
replacement == Binding \o InjectedStatements \o ViewOpen

OldFragment == <<"<p class=\"td-spec-text\">{d}</p>">>
NewFragment ==
    <<"<div class=\"td-spec-text markdown-body\" inner_html={html_output.clone()}></div>">>

TplAlphabet ==
    {ImportAnchor[1], ImportMarker[1], Binding[1], ViewOpen[1],
     OldFragment[1], NewFragment[1], NL, "x"}

TplTexts(n) == UNION {[1..m -> TplAlphabet] : m \in 0..n}

\* The import step without its marker test.
ImportStepNoGuard(c) == Replace(c, ImportAnchor, AnchorAndImport)

\* The import step with the new line put before the anchor.
ImportStepBeforeAnchor(c) ==
    IF ~Contains(c, ImportMarker)
    THEN Replace(c, ImportAnchor, ImportLine \o <<NL>> \o ImportAnchor)
    ELSE c

\* 1. Add import if missing
ImportStep(c) ==
    IF ~Contains(c, ImportMarker)
    THEN Replace(c, ImportAnchor, AnchorAndImport)
    ELSE c

\* The injection step with a replacement that ends before 'view! {'.
InjectStepDropsView(c) == Replace(c, target, Binding \o InjectedStatements)

\* 2. Inject html_output definition before view!
InjectStep(c) == Replace(c, target, replacement)

\* The replacement step as content.replace(old, new, 1).
ReplaceStepFirstOnly(c) ==
    IF Contains(c, OldFragment)
    THEN LET k == CHOOSE m \in 1..Len(c) :
                      /\ MatchAt(c, OldFragment, m)
                      /\ \A j \in 1..(m - 1) : ~MatchAt(c, OldFragment, j)
         IN  SubSeq(c, 1, k - 1) \o NewFragment \o SubSeq(c, k + 1, Len(c))
    ELSE c

\* The replacement step with its two arguments exchanged.
ReplaceStepSwapped(c) == Replace(c, NewFragment, OldFragment)

\* 3. Replace <p class="td-spec-text">{d}</p> with inner_html=html_output
ReplaceStep(c) == Replace(c, OldFragment, NewFragment)

NoContent == [read |-> << >>, imported |-> << >>,
              injected |-> << >>, replaced |-> << >>]

\* The whole script: read, the three edits in order, write.
PatchMarkdown ==
    /\ tplRuns < MaxRuns
    /\ content' = [read     |-> tplFile,
                   imported |-> ImportStep(tplFile),
                   injected |-> InjectStep(ImportStep(tplFile)),
                   replaced |-> ReplaceStep(InjectStep(ImportStep(tplFile)))]
    /\ tplFile' = content'.replaced
    /\ tplRuns' = tplRuns + 1
    /\ UNCHANGED <<cssFile, lines, new_lines, cssRuns>>

---------------------------------------------------------------------------
(* Specifications                                                          *)

NotRun ==
    /\ lines = << >>
    /\ new_lines = << >>
    /\ cssRuns = 0
    /\ content = NoContent
    /\ tplRuns = 0

\* style_patch.py alone, on every stylesheet of at most MaxCssLen atoms.
InitStyle ==
    /\ cssFile \in CssTexts(MaxCssLen)
    /\ tplFile = << >>
    /\ NotRun

SpecStyle == InitStyle /\ [][StylePatch]_vars

\* patch_markdown.py alone, on every template of at most MaxTplLen atoms.
InitMarkdown ==
    /\ cssFile = << >>
    /\ tplFile \in TplTexts(MaxTplLen)
    /\ NotRun

SpecMarkdown == InitMarkdown /\ [][PatchMarkdown]_vars

\* Both scripts, run in any order.
Init ==
    /\ \/ cssFile \in CssTexts(MaxBothLen) /\ tplFile = << >>
       \/ cssFile = << >> /\ tplFile \in TplTexts(MaxBothLen)
    /\ NotRun

Next == StylePatch \/ PatchMarkdown

Spec == Init /\ [][Next]_vars

---------------------------------------------------------------------------
(* Properties of style_patch.py (checked under SpecStyle)                  *)

HasBrace(line) == Contains(line, <<"{">>)
HasComma(line) == Contains(line, <<",">>)
HasSource(line) == Contains(line, SourceSelector)
HasTarget(line) == Contains(line, TargetSelector)

\* The three shapes, each as the specification words it, taken on its own.
OpenBraceForm(line) == HasSource(line) /\ HasBrace(line) /\ ~HasTarget(line)
ContinuationForm(line) ==
    HasSource(line) /\ HasComma(line) /\ ~HasBrace(line) /\ ~HasTarget(line)
BareForm(line) ==
    StartsWith(Strip(line), SourceSelector) /\ ~HasBrace(line) /\ ~HasTarget(line)

InPlaceForm(line) == OpenBraceForm(line) \/ ContinuationForm(line)
BareNoComma(line) == BareForm(line) /\ ~HasComma(line)
NoForm(line) == ~OpenBraceForm(line) /\ ~ContinuationForm(line) /\ ~BareForm(line)

\* The line with ", .edit-task-modal" put after each source selector.
RECURSIVE InsertAfterSource(_)
InsertAfterSource(line) ==
    IF line = << >> THEN << >>
    ELSE IF Head(line) = SourceSelector[1]
         THEN <<Head(line), ",", " ", TargetSelector[1]>> \o InsertAfterSource(Tail(line))
         ELSE <<Head(line)>> \o InsertAfterSource(Tail(line))

\* The line with each source selector turned into the target selector.
SourceToTarget(line) ==
    [k \in 1..Len(line) |->
        IF line[k] = SourceSelector[1] THEN TargetSelector[1] ELSE line[k]]

\* Where the output of input line i starts in new_lines, if every line yields
\* one line and every comma-free bare line yields two.
OutPos(i) == i + Cardinality({j \in 1..(i - 1) : BareNoComma(lines[j])})

\* The first line that an input line yields.
FirstOut(line) == IF InPlaceForm(line) THEN InsertAfterSource(line) ELSE line

\* What follows the output of input line i, which takes n lines: the output
\* of the next input line, or the end of the output.
FollowedByNext(i, n) ==
    IF i < Len(lines)
    THEN /\ OutPos(i) + n <= Len(new_lines)
         /\ new_lines[OutPos(i) + n] = FirstOut(lines[i + 1])
    ELSE Len(new_lines) = OutPos(i) + n - 1

\* C1 (as claimed): a second run of the selector merge leaves the stylesheet
\* as the first run wrote it, merge(merge(text)) = merge(text), for every
\* text, texts with bare selector-only lines included.
C1_MergeIdempotent == cssRuns >= 2 => new_lines = lines

\* C3 (as claimed): the output has as many lines as the input plus one per
\* input line whose stripped text starts with the source selector and which
\* holds neither an opening brace nor the target selector.
C3_LineCountAsClaimed ==
    cssRuns >= 1 =>
        Len(new_lines) =
            Len(lines) + Cardinality({i \in 1..Len(lines) : BareForm(lines[i])})

\* C3 (amended): the output has as many lines as the input plus one per
\* input line of the bare form that also holds no comma, and the lines keep
\* their order: the output of line i starts at i plus the number of such
\* lines before it.
C3_LineCount ==
    cssRuns >= 1 =>
        /\ Len(new_lines) =
               Len(lines) + Cardinality({i \in 1..Len(lines) : BareNoComma(lines[i])})
        /\ \A i \in 1..Len(lines) :
               /\ OutPos(i) <= Len(new_lines)
               /\ new_lines[OutPos(i)] \in {lines[i], InsertAfterSource(lines[i])}

C3_Witness ==
    /\ cssRuns >= 1
    /\ \E i \in 1..Len(lines) : BareNoComma(lines[i])
    /\ \E i \in 1..Len(lines) : BareForm(lines[i]) /\ HasComma(lines[i])

\* C4: every input line of none of the three shapes is in the output once,
\* unchanged, at its place in the order; a text with no line of any shape is
\* written back equal to what was read.
C4_NonDeletion ==
    cssRuns >= 1 =>
        /\ \A i \in 1..Len(lines) :
               NoForm(lines[i]) =>
                   /\ OutPos(i) <= Len(new_lines)
                   /\ new_lines[OutPos(i)] = lines[i]
                   /\ FollowedByNext(i, 1)
        /\ (\A i \in 1..Len(lines) : NoForm(lines[i])) =>
               /\ new_lines = lines
               /\ cssFile = Join(lines)

C4_Witness ==
    /\ cssRuns >= 1
    /\ \E i, j \in 1..Len(lines) :
           /\ i < j
           /\ NoForm(lines[i]) /\ HasSource(lines[i]) /\ HasTarget(lines[i])
           /\ BareNoComma(lines[j])

\* C5: a line with the source selector and without the target selector that
\* holds an opening brace, or a comma and no brace, yields one output line:
\* the line with ", .edit-task-modal" after the source selector; it is not
\* duplicated even when its stripped text starts with the source selector.
C5_InPlaceMerge ==
    cssRuns >= 1 =>
        \A i \in 1..Len(lines) :
            InPlaceForm(lines[i]) =>
                /\ OutPos(i) <= Len(new_lines)
                /\ new_lines[OutPos(i)] = InsertAfterSource(lines[i])
                /\ FollowedByNext(i, 1)

C5_Witness ==
    /\ cssRuns >= 1
    /\ \E i \in 1..Len(lines) :
           /\ ContinuationForm(lines[i])
           /\ StartsWith(Strip(lines[i]), SourceSelector)
    /\ \E i \in 1..Len(lines) : OpenBraceForm(lines[i])

\* C6: a line whose stripped text starts with the source selector and which
\* holds no brace, no comma and no target selector yields itself, then its
\* copy with the source selector turned into the target selector, then the
\* output of the next input line.
C6_BareDuplication ==
    cssRuns >= 1 =>
        \A i \in 1..Len(lines) :
            BareNoComma(lines[i]) =>
                /\ OutPos(i) + 1 <= Len(new_lines)
                /\ new_lines[OutPos(i)] = lines[i]
                /\ new_lines[OutPos(i) + 1] = SourceToTarget(lines[i])
                /\ FollowedByNext(i, 2)

C6_Witness ==
    /\ cssRuns >= 1
    /\ \E i \in 1..(Len(lines) - 1) :
           /\ BareNoComma(lines[i])
           /\ lines[i][1] = " "
           /\ HasBrace(lines[i + 1])

---------------------------------------------------------------------------
(* Properties of patch_markdown.py (checked under SpecMarkdown)            *)

\* Line breaks that an atom spells.
LineBreaks(atom) ==
    IF atom = NL \/ atom = ViewOpen[1]
       \/ \E k \in 1..Len(InjectedStatements) : atom = InjectedStatements[k]
    THEN 1 ELSE 0

\* len(text.split('\n'))
RECURSIVE LineCount(_)
LineCount(text) ==
    IF text = << >> THEN 1 ELSE LineBreaks(Head(text)) + LineCount(Tail(text))

\* The text with the injected statements put between each binding statement
\* and the view opening that follows it.
RECURSIVE InsertBeforeView(_)
InsertBeforeView(text) ==
    IF text = << >> THEN << >>
    ELSE IF Len(text) >= 2 /\ text[1] = Binding[1] /\ text[2] = ViewOpen[1]
         THEN <<text[1]>> \o InjectedStatements \o <<text[2]>>
                  \o InsertBeforeView(SubSeq(text, 3, Len(text)))
         ELSE <<Head(text)>> \o InsertBeforeView(Tail(text))

\* C2: a second run of the three edits leaves the template as the first run
\* wrote it, inject(inject(text)) = inject(text).
C2_InjectIdempotent == tplRuns >= 2 => content.replaced = content.read

C2_Witness ==
    /\ tplRuns >= 2
    /\ Contains(tplFile, AnchorAndImport)
    /\ Contains(tplFile, replacement)
    /\ Contains(tplFile, NewFragment)

\* C7 (as claimed): on a text without the import marker the import step adds
\* exactly one line, and applying it again adds none.
C7_ImportAsClaimed ==
    (tplRuns >= 1 /\ ~Contains(content.read, ImportMarker)) =>
        /\ LineCount(content.imported) = LineCount(content.read) + 1
        /\ LineCount(ImportStep(content.imported)) = LineCount(content.imported)

\* C7 (amended): on a text without the import marker and with the anchor
\* import exactly once, the import step puts a line break and the new import
\* line right after the anchor and changes nothing else, which makes one
\* line more; applying the step again changes nothing.
C7_GuardedImport ==
    (/\ tplRuns >= 1
     /\ ~Contains(content.read, ImportMarker)
     /\ Count(content.read, ImportAnchor) = 1) =>
        LET c == content.read
            k == CHOOSE m \in 1..Len(c) : MatchAt(c, ImportAnchor, m)
        IN  /\ content.imported =
                   SubSeq(c, 1, k) \o <<NL>> \o ImportLine \o SubSeq(c, k + 1, Len(c))
            /\ LineCount(content.imported) = LineCount(c) + 1
            /\ ImportStep(content.imported) = content.imported

C7_Witness ==
    /\ tplRuns = 1
    /\ ~Contains(content.read, ImportMarker)
    /\ Count(content.read, ImportAnchor) = 1
    /\ Len(content.read) >= 3
    /\ content.read[2] = ImportAnchor[1]

\* C8: after the replacement step the text holds no old fragment; each old
\* fragment of the input is a new fragment in the output and nothing else is
\* changed; a text without the old fragment is left as it is.
C8_FragmentReplaced ==
    tplRuns >= 1 =>
        LET c == content.injected
            r == content.replaced
        IN  /\ Count(r, OldFragment) = 0
            /\ Count(r, NewFragment) = Count(c, NewFragment) + Count(c, OldFragment)
            /\ Len(r) = Len(c)
            /\ \A k \in 1..Len(c) :
                   r[k] = IF c[k] = OldFragment[1] THEN NewFragment[1] ELSE c[k]
            /\ (Count(c, OldFragment) = 0 => r = c)

C8_Witness ==
    /\ tplRuns >= 1
    /\ Count(content.injected, OldFragment) = 2
    /\ Count(content.replaced, NewFragment) = 2

\* C9: without a binding statement directly followed by the view opening the
\* injection step returns its input; with one, the statements are inserted
\* between the two, which are kept as they were.
C9_PreAnchorInjection ==
    tplRuns >= 1 =>
        /\ ~Contains(content.imported, target) =>
               content.injected = content.imported
        /\ Contains(content.imported, target) =>
               /\ content.injected = InsertBeforeView(content.imported)
               /\ Count(content.injected, replacement) = Count(content.imported, target)

C9_Witness ==
    /\ tplRuns = 1
    /\ Contains(content.imported, target)
    /\ Contains(content.injected, replacement)
    /\ Contains(content.imported, Binding \o <<"x">>)

---------------------------------------------------------------------------
(* Property of both scripts (checked under Spec)                           *)

\* Every line of the stylesheet that holds the target selector.
MergedLines(css) == {l \in {Split(css)[k] : k \in 1..Len(Split(css))} : HasTarget(l)}

\* The patterns that the template script looks for are all absent.
NoTemplatePattern(tpl) ==
    /\ Contains(tpl, ImportMarker) \/ ~Contains(tpl, ImportAnchor)
    /\ ~Contains(tpl, target)
    /\ ~Contains(tpl, OldFragment)

\* C10: no run un-patches a file.  Lines that hold the target selector stay,
\* and so do the import line, the injected statements and the new fragment
\* (none gets fewer); a file in which no pattern is found is left as it is.
C10_NoRevert ==
    [][/\ MergedLines(cssFile) \subseteq MergedLines(cssFile')
       /\ Count(tplFile', ImportLine) >= Count(tplFile, ImportLine)
       /\ Count(tplFile', InjectedStatements) >= Count(tplFile, InjectedStatements)
       /\ Count(tplFile', NewFragment) >= Count(tplFile, NewFragment)
       /\ ~HasSource(cssFile) => cssFile' = cssFile
       /\ NoTemplatePattern(tplFile) => tplFile' = tplFile]_vars

C10_Witness ==
    \/ /\ cssRuns = MaxRuns
       /\ Contains(Join(lines), MergedSelector)
       /\ Contains(cssFile, MergedSelector)
    \/ /\ tplRuns = MaxRuns
       /\ Contains(content.read, NewFragment)
       /\ Contains(tplFile, NewFragment)

====
